---- MODULE Spec2Model ----
(***************************************************************************)
(* Model of the resilient API client of Neolauncher                        *)
(* (src/src/main/services/hydra-api.ts): the shared Session (userAuth),    *)
(* the retry engine (retryRequest), the five HTTP operations and the       *)
(* sign-in / sign-out / refresh / forced-reset transitions, with every     *)
(* await of the source as a separate step; and of the startup sequencer    *)
(* (src/src/main/services/critical-error-handler.ts).                      *)
(***************************************************************************)
EXTENDS Integers, Sequences, FiniteSets, TLC

\* ---- program constants (hydra-api.ts:48-52) ----
DEFAULT_RETRY_ATTEMPTS == 3
DEFAULT_RETRY_DELAY == 1000
EXPIRATION_OFFSET_IN_MS == 1000 * 60 * 5
ADD_LOG_INTERCEPTOR == TRUE

\* ---- bounds of the model ----
\* largest caller-supplied options.retryAttempts
MaxRetryAttempts == 1
\* number of clock steps
MaxTicks == 1

\* the clock advances in steps of the expiration offset, from a start time
\* larger than the offset (Date.now() is far larger than 5 minutes)
TickMs == EXPIRATION_OFFSET_IN_MS
StartTime == 2 * EXPIRATION_OFFSET_IN_MS

\* ---- input domains ----
\* call slots: one call of the application, and the /auth/logout post that
\* handleSignOut starts
AppCalls == {"c1"}
LogoutCall == "logout"
\* the calls of the application when two of them run side by side
ConcurrentCalls == AppCalls \cup {"c2"}
Calls == ConcurrentCalls \cup {LogoutCall}

HttpOps == {"get", "post", "put", "patch", "delete"}
RetriedOps == {"get", "post"}
\* a direct run of retryRequest on an arbitrary requestFn
EngineOp == "retryRequest"

\* an optional number is <<>> (undefined) or <<n>>; the retry policies a
\* caller passes: none (the defaults), or retryAttempts with a retryDelay
RetryPolicies ==
  {[retryAttempts |-> <<>>, retryDelay |-> <<>>]}
  \cup {[retryAttempts |-> <<n>>, retryDelay |-> <<250>>] : n \in 0..MaxRetryAttempts}
Options(a, b, p) ==
  [needsAuth |-> a, needsSubscription |-> b,
   retryAttempts |-> p.retryAttempts, retryDelay |-> p.retryDelay]
DefaultPolicy == [retryAttempts |-> <<>>, retryDelay |-> <<>>]
\* the option bags callers pass: every needsAuth / needsSubscription with the
\* default policy, and every policy with the default preconditions
OptionBags ==
  {Options(a, b, DefaultPolicy) :
      a \in {"undefined", "true", "false"}, b \in {"undefined", "true"}}
  \cup {Options("undefined", "undefined", p) : p \in RetryPolicies}

\* sign-in payloads and refresh responses
SignInPayloads == [accessToken : {"a1"}, refreshToken : {"r1"}, expiresIn : {360}]
RefreshData == [accessToken : {"a2"}, expiresIn : {600}]
\* subscription returned by getUserData: <<>> (none) or <<expiresAt>>
UserDataOpts == {<<>>, <<StartTime + TickMs>>}

\* ---- errors ----
Err(class, status, code, msg) ==
  [class |-> class, status |-> status, code |-> code, msg |-> msg]
NoError == Err("none", 0, "none", "")
UserNotLoggedInError == Err("UserNotLoggedInError", 0, "none", "")
SubscriptionRequiredError == Err("SubscriptionRequiredError", 0, "none", "")
\* hydra-api.ts:32-37; status is the HTTP status named in the message (0: none)
NetworkError(msg, status) == Err("NetworkError", status, "none", msg)
\* hydra-api.ts:39-44
BackendUnavailableError == Err("BackendUnavailableError", 0, "none", "Backend service unavailable")
\* an AxiosError with a response (status > 0) or without one (status 0)
AxiosError(status, code) == Err("AxiosError", status, code, "")
LevelNotFound == Err("Error", 0, "LEVEL_NOT_FOUND", "")

\* what the transport reports for one HTTP request
Statuses == {401, 404, 503}
NetCodes == {"ECONNREFUSED", "ETIMEDOUT"}
Outcome(kind, status, code) == [kind |-> kind, status |-> status, code |-> code]
OkOutcome == Outcome("ok", 200, "none")
HttpOutcomes ==
  {OkOutcome}
  \cup {Outcome("response", s, "ERR_BAD_RESPONSE") : s \in Statuses}
  \cup {Outcome("noresponse", 0, c) : c \in NetCodes}

\* the error axios rejects with, before the interceptors
RawAxiosError(o) == AxiosError(o.status, o.code)

\* response error interceptor, hydra-api.ts:243-284
ResponseErrorInterceptor(o) ==
  IF ~ADD_LOG_INTERCEPTOR THEN RawAxiosError(o)
  ELSE IF o.kind = "response" THEN RawAxiosError(o)
  ELSE IF o.kind = "noresponse"
       THEN Err("Error", 0, "none", "Request failed with")
  ELSE RawAxiosError(o)

\* failures an arbitrary requestFn can throw into retryRequest
EngineFailures ==
  {UserNotLoggedInError, SubscriptionRequiredError}
  \cup {AxiosError(s, "ERR_BAD_RESPONSE") : s \in Statuses \cup {403, 500}}
  \cup {AxiosError(0, c) : c \in NetCodes \cup {"ENOTFOUND"}}
  \cup {Err("Error", 0, c, "") : c \in NetCodes \cup {"none"}}

\* ---- pure helpers ----
RECURSIVE Pow2(_)
Pow2(i) == IF i = 0 THEN 1 ELSE 2 * Pow2(i - 1)

RECURSIVE SumSeq(_)
SumSeq(s) == IF s = <<>> THEN 0 ELSE Head(s) + SumSeq(Tail(s))

secondsToMilliseconds(seconds) == seconds * 1000

\* hydra-api.ts:58-63
EmptyAuth ==
  [authToken |-> "", refreshToken |-> "", expirationTimestamp |-> 0,
   subscription |-> <<>>]

\* hydra-api.ts:65-67
isLoggedIn(auth) == auth.authToken # ""

\* hydra-api.ts:69-72
hasActiveSubscription(auth, t) ==
  LET expiresAt == IF auth.subscription = <<>> THEN 0 ELSE auth.subscription[1]
  IN expiresAt > t

\* hydra-api.ts:127-135
isRetryableError(error) ==
  IF error.class = "AxiosError"
  THEN error.status = 0 \/ (error.status >= 500 /\ error.status < 600)
  ELSE error.code \in {"ECONNREFUSED", "ENOTFOUND", "ETIMEDOUT"}

\* mutant: the last failure is rethrown as it is
Categorize_Rethrows(lastError) == lastError

\* hydra-api.ts:110-124
Categorize(lastError) ==
  IF lastError.class = "AxiosError" /\ lastError.code \in {"ECONNREFUSED", "ENOTFOUND"}
  THEN BackendUnavailableError
  ELSE IF lastError.class = "AxiosError" /\ lastError.status >= 500
  THEN NetworkError("Server error", lastError.status)
  ELSE NetworkError("Request failed", 0)

\* hydra-api.ts:366-372 (the bearer token of the Authorization header)
getAxiosConfig(auth) == auth.authToken

\* mutant: the expiration offset is not subtracted
tokenExpirationTimestamp_NoOffset(t, expiresIn) ==
  t + secondsToMilliseconds(expiresIn)

\* expiry computed at sign-in and refresh, hydra-api.ts:151-154, 326-329
tokenExpirationTimestamp(t, expiresIn) ==
  t + secondsToMilliseconds(expiresIn) - EXPIRATION_OFFSET_IN_MS

\* ---- startup sequencer: constants and records ----
\* critical-error-handler.ts:43-44
MAX_RETRY_ATTEMPTS == 3
RETRY_DELAY == 2000

\* number of calls of handleCriticalStartup in the life of the process
MaxStartupRuns == 2

\* the services of handleEssentialServices, in declared order (213-219)
services == <<"PythonRPC", "HydraApi", "DownloadManager", "CommonRedistManager", "Ludusavi">>
\* messages of the errors a service's init rejects with
InitFailureMessages == {"init failed"}

\* the steps of handleCriticalStartup, in the order of lines 55-64
StartupSteps == <<"lock", "storage", "paths", "services">>

\* an error object: name, message, and the component / recoverable fields of
\* CriticalStartupError (14-19), "" and FALSE on the classes that lack them
StartupErr(name, message, component, recoverable) ==
  [name |-> name, message |-> message, component |-> component,
   recoverable |-> recoverable]
NoStartupError == StartupErr("none", <<>>, "", FALSE)
CriticalStartupError(message, component, recoverable) ==
  StartupErr("CriticalStartupError", message, component, recoverable)
\* critical-error-handler.ts:86-90
LockFailure ==
  CriticalStartupError(<<"Failed to acquire application lock after multiple attempts. Another instance may be running.">>,
                       "Lock", FALSE)
\* critical-error-handler.ts:113-115
DatabaseCorruptionError ==
  StartupErr("DatabaseCorruptionError",
             <<"Database is corrupted and cannot be recovered. Please reinstall the application.">>,
             "", FALSE)
\* critical-error-handler.ts:230-234
ServiceInitFailure(name, msg) ==
  CriticalStartupError(<<name, " failed to initialize: ", msg>>, name, TRUE)

\* the sequencer before handleCriticalStartup is called
NotStarted ==
  [pc |-> "NotStarted", attempt |-> 0, lockDelays |-> <<>>, lockHeld |-> FALSE,
   serviceIdx |-> 0, steps |-> <<>>, initCalls |-> <<>>, initFailed |-> <<>>,
   recovered |-> {}, errorsAtStart |-> 0, error |-> NoStartupError,
   runs |-> 0, buttons |-> <<>>, limited |-> FALSE, report |-> <<>>,
   pathCheck |-> "none", choice |-> ""]

\* ---- catalogue search: constants and records ----
\* largest take and skip a caller of searchGames passes
MaxTake == 3
MaxSkip == 4

\* search-games.ts:6-46, each game by its id
mockGames == <<1, 2, 3>>
\* pages the backend answers /catalogue/search with
BackendPages == {[edges |-> <<>>, count |-> 0], [edges |-> <<7, 8>>, count |-> 9]}
\* what HydraApi.post rejects with: the raised failures of retryRequest, a
\* 401, and any other error of the request
PostFailures ==
  {NetworkError("Server error", 503), NetworkError("Request failed", 0),
   BackendUnavailableError, AxiosError(401, "ERR_BAD_RESPONSE"), LevelNotFound}

\* Array.prototype.slice(start, end) for 0 <= start <= end
slice(arr, start, end) ==
  LET last == IF end < Len(arr) THEN end ELSE Len(arr)
  IN IF start >= last THEN <<>> ELSE SubSeq(arr, start + 1, last)

\* number of times the filters or the page of the Catalogue change, the
\* mount included
MaxFilterChanges == 4

\* what the page shows: nothing, the edges / count of a response, or those of
\* mockCatalogueData (part_000:23-68), and the search that set it (0: none)
Shown(kind, by) == [kind |-> kind, by |-> by]

\* the Catalogue page before it is mounted (part_000:81-103): query counts the
\* values of (filters, page); timer is the pending call of the debounced
\* function; controllers are the AbortControllers of the searches started,
\* each with the query it was started for
Unmounted ==
  [query |-> 0, timer |-> <<>>, controllers |-> <<>>, abortControllerRef |-> 0,
   results |-> Shown("empty", 0), itemsCount |-> Shown("empty", 0),
   isLoading |-> TRUE]

\* the handler before it is invoked
SearchIdle ==
  [pc |-> "idle", take |-> 0, skip |-> 0, sent |-> <<>>, caught |-> NoError,
   result |-> <<>>, rejected |-> FALSE]

\* ---- shutdown sequencer: constants and records ----
\* number of calls of handleGracefulShutdown in the life of the process
MaxShutdownRuns == 2

\* the steps of handleGracefulShutdown, in the order of lines 344-354
ShutdownSteps == <<"stopDownloads", "disconnect", "killPython", "releaseLock">>

\* process.platform (390), "win32" or any other
Platforms == {"win32", "linux"}
\* the command forceKillPythonProcesses hands to exec (390-394)
forceKillCommand(platform) ==
  IF platform = "win32" THEN "taskkill /f /im python.exe" ELSE "pkill -f python"

\* one entry of the record of a run: a step is called, returns or throws
Event(step, ev) == [step |-> step, ev |-> ev]

\* the sequencer before handleGracefulShutdown is called; startupAtRelease is
\* where the startup sequencer stood (its run and position) when
\* Lock.releaseLock() resolved
ShutdownIdle ==
  [pc |-> "idle", log |-> <<>>, killResult |-> "none", forceKill |-> "none",
   forceCommand |-> "", platform |-> "", exitCode |-> <<>>, runs |-> 0,
   startupAtRelease |-> <<>>]


VARIABLES
  userAuth,       \* HydraApi.userAuth, the Session
  dbAuth,         \* the persisted auth record: <<>> or <<record>>
  now,            \* Date.now()
  windowEvent,    \* what the last step sent to the main window: "none", a
                  \* message, or "no-window" for a send skipped because
                  \* WindowManager.mainWindow is not set
  signIn,         \* position of handleExternalAuth
  calls,          \* per call slot: the locals of get/post/.. and retryRequest
  startup,        \* the startup sequencer: position, locals and what it did
  startupErrors,  \* CriticalErrorHandler.startupErrors
  shutdown,       \* the shutdown sequencer: position, locals and what it did
  search,         \* the searchGames handler of the main process
  catalogue       \* the Catalogue page of the renderer

vars == <<userAuth, dbAuth, now, windowEvent, signIn, calls, startup, startupErrors,
          shutdown, search, catalogue>>
\* the state of the API client, and the rest
apiVars == <<userAuth, dbAuth, now, windowEvent, signIn, calls>>
\* the catalogue search, in the main process and in the renderer
uiVars == <<search, catalogue>>
nonApiVars == <<startup, startupErrors, shutdown, uiVars>>
\* what the startup sequencer leaves alone, and what the shutdown sequencer does
nonStartupVars == <<apiVars, shutdown, uiVars>>
nonShutdownVars == <<apiVars, startupErrors, uiVars>>
nonUiVars == <<apiVars, startup, startupErrors, shutdown>>

IdleSlot ==
  [op |-> "none", needsAuth |-> "false", needsSubscription |-> "undefined",
   retryAttempts |-> 0, retryDelay |-> 0, pc |-> "idle", attempt |-> 0,
   invocations |-> 0, delays |-> <<>>, headers |-> "", sent |-> "",
   lastOutcome |-> "none", lastError |-> NoError, error |-> NoError,
   ok |-> FALSE, refreshed |-> <<>>]

Init ==
  /\ userAuth = EmptyAuth
  /\ dbAuth = <<>>
  /\ now = StartTime
  /\ windowEvent = "none"
  /\ signIn = "idle"
  /\ calls = [c \in Calls |-> IdleSlot]
  /\ startup = NotStarted
  /\ startupErrors = <<>>
  /\ shutdown = ShutdownIdle
  /\ search = SearchIdle
  /\ catalogue = Unmounted

\* ---- locals of one call ----
OptNum(opt, default) == IF opt = <<>> THEN default ELSE opt[1]

\* the options bag of a call, with the parameter defaults of retryRequest
\* (hydra-api.ts:77-78) applied to options?.retryAttempts / retryDelay
NewSlot(op, o) ==
  [IdleSlot EXCEPT
     !.op = op,
     !.needsAuth = o.needsAuth,
     !.needsSubscription = o.needsSubscription,
     !.retryAttempts = OptNum(o.retryAttempts, DEFAULT_RETRY_ATTEMPTS),
     !.retryDelay = OptNum(o.retryDelay, DEFAULT_RETRY_DELAY)]

\* hydra-api.ts:407: options?.needsAuth == undefined || options.needsAuth
needsAuth(s) == s.needsAuth = "undefined" \/ s.needsAuth = "true"
\* hydra-api.ts:408: options?.needsSubscription === true
needsSubscription(s) == s.needsSubscription = "true"

\* the call's promise rejects with e
Fail(s, e) == [s EXCEPT !.pc = "done", !.error = e, !.ok = FALSE]
\* mutant: the result is kept but the loop goes on while attempts remain
Succeed_KeepsLooping(s) ==
  IF s.op \in RetriedOps \cup {EngineOp} /\ s.attempt < s.retryAttempts
  THEN [s EXCEPT !.pc = "delay",
                 !.delays = Append(@, s.retryDelay * Pow2(s.attempt))]
  ELSE [s EXCEPT !.pc = "done", !.error = NoError, !.ok = TRUE]
\* the call's promise resolves with response.data
Succeed(s) == [s EXCEPT !.pc = "done", !.error = NoError, !.ok = TRUE]

\* one invocation of requestFn (hydra-api.ts:84, 433-436, 450-453) or of the
\* direct axios call of put/patch/delete (466-469, 479-482, 488-491): get
\* sends the headers captured before the loop, the others the current token
Invoke(s, auth) ==
  [s EXCEPT !.pc = "request",
            !.invocations = @ + 1,
            !.sent = IF s.op = "get" THEN s.headers ELSE getAxiosConfig(auth)]

\* mutant: the subscription check of lines 415-417 is missing
AfterRevalidate_NoSubscriptionCheck(s, auth, t) ==
  Invoke([s EXCEPT !.headers = IF s.op = "get" THEN getAxiosConfig(auth) ELSE ""],
         auth)

\* hydra-api.ts:415-417 followed by the body of the operation up to its
\* first HTTP request (427-434, 449-451, 466-467)
AfterRevalidate(s, auth, t) ==
  IF needsSubscription(s) /\ ~hasActiveSubscription(auth, t)
  THEN Fail(s, SubscriptionRequiredError)
  ELSE Invoke([s EXCEPT !.headers = IF s.op = "get" THEN getAxiosConfig(auth) ELSE ""],
              auth)

\* mutant: the isLoggedIn check of line 411 is missing
validateOptions_NoLoginCheck(s, auth, t) ==
  IF needsAuth(s) /\ auth.expirationTimestamp < t
  THEN [s EXCEPT !.pc = "refresh"]
  ELSE AfterRevalidate(s, auth, t)

\* mutant: revalidateAccessTokenIfExpired is not called
validateOptions_NoRefresh(s, auth, t) ==
  IF needsAuth(s) /\ ~isLoggedIn(auth)
  THEN Fail(s, UserNotLoggedInError)
  ELSE AfterRevalidate(s, auth, t)

\* validateOptions (406-418) with revalidateAccessTokenIfExpired (356-359),
\* up to the first suspension: a failed precondition, the refresh request,
\* or the first HTTP request of the operation
validateOptions(s, auth, t) ==
  IF needsAuth(s) /\ ~isLoggedIn(auth)
  THEN Fail(s, UserNotLoggedInError)
  ELSE IF needsAuth(s) /\ auth.expirationTimestamp < t
  THEN [s EXCEPT !.pc = "refresh"]
  ELSE AfterRevalidate(s, auth, t)

\* mutant: no early rethrow and no predicate, every failure is retried
RetryCatch_RetryAll(s, error) ==
  LET s1 == [s EXCEPT !.lastError = error] IN
  IF s.attempt < s.retryAttempts
  THEN [s1 EXCEPT !.pc = "delay",
                  !.delays = Append(@, s.retryDelay * Pow2(s.attempt))]
  ELSE Fail(s1, Categorize(error))

\* mutant: linear backoff, retryDelay * (attempt + 1)
RetryCatch_LinearBackoff(s, error) ==
  LET s1 == [s EXCEPT !.lastError = error] IN
  IF error.class \in {"UserNotLoggedInError", "SubscriptionRequiredError"}
  THEN Fail(s1, error)
  ELSE IF error.class = "AxiosError" /\ error.status = 401
  THEN Fail(s1, error)
  ELSE IF isRetryableError(error) /\ s.attempt < s.retryAttempts
  THEN [s1 EXCEPT !.pc = "delay",
                  !.delays = Append(@, s.retryDelay * (s.attempt + 1))]
  ELSE Fail(s1, Categorize(error))

\* catch block of retryRequest, hydra-api.ts:85-107, and the
\* categorisation after the loop
RetryCatch(s, error) ==
  LET s1 == [s EXCEPT !.lastError = error] IN
  IF error.class \in {"UserNotLoggedInError", "SubscriptionRequiredError"}
  THEN Fail(s1, error)
  ELSE IF error.class = "AxiosError" /\ error.status = 401
  THEN Fail(s1, error)
  ELSE IF isRetryableError(error) /\ s.attempt < s.retryAttempts
  THEN [s1 EXCEPT !.pc = "delay",
                  !.delays = Append(@, s.retryDelay * Pow2(s.attempt))]
  ELSE Fail(s1, Categorize(error))

\* what the operation does with a rejected request: get and post run inside
\* retryRequest, put/patch/delete reject with the error as it is
OnRequestError(s, error) ==
  IF s.op \in RetriedOps \cup {EngineOp}
  THEN RetryCatch(s, error)
  ELSE Fail([s EXCEPT !.lastError = error], error)

\* hydra-api.ts:313-317; whether the main window exists is read when sending
sendSignOutEvent ==
  \E mainWindow \in BOOLEAN :
    windowEvent' = IF mainWindow THEN "on-signout" ELSE "no-window"

\* mutant: only the access token is cleared
handleUnauthorizedError_TokenOnly(err) ==
  IF err.class = "AxiosError" /\ err.status = 401
  THEN /\ userAuth' = [userAuth EXCEPT !.authToken = ""]
       /\ dbAuth' = <<>>
       /\ sendSignOutEvent
  ELSE /\ windowEvent' = "none"
       /\ UNCHANGED <<userAuth, dbAuth>>

\* mutant: the reset is not limited to a 401 response
handleUnauthorizedError_AnyError(err) ==
  /\ userAuth' = EmptyAuth
  /\ dbAuth' = <<>>
  /\ sendSignOutEvent

\* state change of handleUnauthorizedError, hydra-api.ts:374-401, with
\* sendSignOutEvent (313-317); the rethrow (403) is in the calling action
handleUnauthorizedError(err) ==
  IF err.class = "AxiosError" /\ err.status = 401
  THEN /\ userAuth' = EmptyAuth
       /\ dbAuth' = <<>>
       /\ sendSignOutEvent
  ELSE /\ windowEvent' = "none"
       /\ UNCHANGED <<userAuth, dbAuth>>

\* the outcome of the call reaches its caller; handleSignOut discards the
\* outcome of its post (.catch(() => {}), 205) and nothing of it is kept
Settle(c, s) == IF c = LogoutCall /\ s.pc = "done" THEN IdleSlot ELSE s

\* ---- actions ----

\* a call of get/post/put/patch/delete, up to its first suspension
StartCall(c, op, o) ==
  /\ c \in ConcurrentCalls
  /\ calls[c].pc = "idle"
  /\ calls' = [calls EXCEPT ![c] = validateOptions(NewSlot(op, o), userAuth, now)]
  /\ windowEvent' = "none"
  /\ UNCHANGED <<userAuth, dbAuth, now, signIn>>
  /\ UNCHANGED nonApiVars

\* the response to POST /auth/refresh: refreshToken (319-337) on success,
\* the catch of revalidateAccessTokenIfExpired (360-362) on failure
RefreshResponse(c, o) ==
  /\ calls[c].pc = "refresh"
  /\ IF o.kind = "ok"
     THEN \E data \in RefreshData :
            LET ts == tokenExpirationTimestamp(now, data.expiresIn) IN
            /\ userAuth' = [userAuth EXCEPT !.authToken = data.accessToken,
                                            !.expirationTimestamp = ts]
            /\ calls' = [calls EXCEPT ![c].pc = "persist",
                                      ![c].refreshed = <<data.accessToken, ts>>]
            /\ windowEvent' = "none"
            /\ UNCHANGED <<dbAuth>>
     ELSE LET err == ResponseErrorInterceptor(o) IN
            /\ handleUnauthorizedError(err)
            /\ calls' = [calls EXCEPT ![c] = Fail([@ EXCEPT !.lastError = err], err)]
  /\ UNCHANGED <<now, signIn>>
  /\ UNCHANGED nonApiVars

\* refreshToken's db.get(auth).then(db.put) (339-351), then the rest of
\* validateOptions and the first request.  A get of a missing key either
\* rejects or yields undefined, depending on the storage library's version.
RefreshPersist(c, getRejects) ==
  /\ calls[c].pc = "persist"
  /\ LET s == [calls[c] EXCEPT !.refreshed = <<>>]
         tok == calls[c].refreshed[1]
         ts == calls[c].refreshed[2]
     IN IF dbAuth = <<>> /\ getRejects
        THEN /\ calls' = [calls EXCEPT ![c] =
                    Fail([s EXCEPT !.lastError = LevelNotFound], LevelNotFound)]
             /\ UNCHANGED dbAuth
        ELSE /\ dbAuth' = <<[accessToken |-> tok,
                             refreshToken |-> IF dbAuth = <<>> THEN "" ELSE dbAuth[1].refreshToken,
                             tokenExpirationTimestamp |-> ts]>>
             /\ calls' = [calls EXCEPT ![c] = AfterRevalidate(s, userAuth, now)]
  /\ windowEvent' = "none"
  /\ UNCHANGED <<userAuth, now, signIn>>
  /\ UNCHANGED nonApiVars

\* the response to a request of get/post/put/patch/delete: .then / .catch(
\* handleUnauthorizedError), then the catch of retryRequest for get and post
HttpResponse(c, o) ==
  /\ calls[c].pc = "request"
  /\ calls[c].op \in HttpOps
  /\ IF o.kind = "ok"
     THEN /\ calls' = [calls EXCEPT ![c] =
                 Settle(c, Succeed([@ EXCEPT !.lastOutcome = o.kind]))]
          /\ windowEvent' = "none"
          /\ UNCHANGED <<userAuth, dbAuth>>
     ELSE LET err == ResponseErrorInterceptor(o) IN
          /\ handleUnauthorizedError(err)
          /\ calls' = [calls EXCEPT ![c] =
                 Settle(c, OnRequestError([@ EXCEPT !.lastOutcome = o.kind], err))]
  /\ UNCHANGED <<now, signIn>>
  /\ UNCHANGED nonApiVars

\* the timer of delay() fires (101-102, 137-139): next iteration of the loop
TimerFires(c) ==
  /\ calls[c].pc = "delay"
  /\ calls' = [calls EXCEPT ![c] = Invoke([@ EXCEPT !.attempt = @ + 1], userAuth)]
  /\ windowEvent' = "none"
  /\ UNCHANGED <<userAuth, dbAuth, now, signIn>>
  /\ UNCHANGED nonApiVars

\* retryRequest (75-84) run on an arbitrary requestFn
StartRetryRequest(c, p) ==
  /\ c \in AppCalls
  /\ calls[c].pc = "idle"
  /\ calls' = [calls EXCEPT ![c] =
       [IdleSlot EXCEPT !.op = EngineOp,
                        !.retryAttempts = OptNum(p.retryAttempts, DEFAULT_RETRY_ATTEMPTS),
                        !.retryDelay = OptNum(p.retryDelay, DEFAULT_RETRY_DELAY),
                        !.pc = "request",
                        !.invocations = 1]]
  /\ windowEvent' = "none"
  /\ UNCHANGED <<userAuth, dbAuth, now, signIn>>
  /\ UNCHANGED nonApiVars

\* that requestFn settles: resolves, or rejects with e
RequestFnResolves(c) ==
  /\ calls[c].pc = "request"
  /\ calls[c].op = EngineOp
  /\ calls' = [calls EXCEPT ![c] = Succeed([@ EXCEPT !.lastOutcome = "ok"])]
  /\ windowEvent' = "none"
  /\ UNCHANGED <<userAuth, dbAuth, now, signIn>>
  /\ UNCHANGED nonApiVars

RequestFnRejects(c, e) ==
  /\ calls[c].pc = "request"
  /\ calls[c].op = EngineOp
  /\ calls' = [calls EXCEPT ![c] = RetryCatch([@ EXCEPT !.lastOutcome = "thrown"], e)]
  /\ windowEvent' = "none"
  /\ UNCHANGED <<userAuth, dbAuth, now, signIn>>
  /\ UNCHANGED nonApiVars

\* handleExternalAuth up to the await of getUserData (141-178)
ExternalAuth(p) ==
  /\ signIn = "idle"
  /\ LET ts == tokenExpirationTimestamp(now, p.expiresIn) IN
     /\ userAuth' = [authToken |-> p.accessToken, refreshToken |-> p.refreshToken,
                     expirationTimestamp |-> ts, subscription |-> <<>>]
     /\ dbAuth' = <<[accessToken |-> p.accessToken, refreshToken |-> p.refreshToken,
                     tokenExpirationTimestamp |-> ts]>>
  /\ signIn' = "userData"
  /\ windowEvent' = "none"
  /\ UNCHANGED <<now, calls>>
  /\ UNCHANGED nonApiVars

\* getUserData settles: the rest of handleExternalAuth (178-195)
ExternalAuthUserData(sub) ==
  /\ signIn = "userData"
  /\ userAuth' = IF sub # <<>> THEN [userAuth EXCEPT !.subscription = sub] ELSE userAuth
  /\ \E mainWindow \in BOOLEAN :
       windowEvent' = IF mainWindow THEN "on-signin" ELSE "no-window"
  /\ signIn' = "idle"
  /\ UNCHANGED <<dbAuth, now, calls>>
  /\ UNCHANGED nonApiVars

\* handleSignOut (197-206): the reset, then post("/auth/logout", {},
\* {needsAuth: false}) up to its first request
handleSignOut ==
  /\ calls[LogoutCall].pc = "idle"
  /\ userAuth' = EmptyAuth
  /\ LET o == [needsAuth |-> "false", needsSubscription |-> "undefined",
               retryAttempts |-> <<>>, retryDelay |-> <<>>]
     IN calls' = [calls EXCEPT ![LogoutCall] =
                    validateOptions(NewSlot("post", o), EmptyAuth, now)]
  /\ windowEvent' = "none"
  /\ UNCHANGED <<dbAuth, now, signIn>>
  /\ UNCHANGED nonApiVars

\* the caller has taken the outcome of the call: the slot is free again
Return(c) ==
  /\ calls[c].pc = "done"
  /\ calls' = [calls EXCEPT ![c] = IdleSlot]
  /\ windowEvent' = "none"
  /\ UNCHANGED <<userAuth, dbAuth, now, signIn>>
  /\ UNCHANGED nonApiVars

\* time passes
Tick ==
  /\ now < StartTime + MaxTicks * TickMs
  /\ now' = now + TickMs
  /\ windowEvent' = "none"
  /\ UNCHANGED <<userAuth, dbAuth, signIn, calls>>
  /\ UNCHANGED nonApiVars

Next ==
  \/ \E c \in AppCalls, op \in HttpOps, o \in OptionBags : StartCall(c, op, o)
  \/ \E c \in Calls, o \in HttpOutcomes : RefreshResponse(c, o)
  \/ \E c \in Calls, r \in BOOLEAN : RefreshPersist(c, r)
  \/ \E c \in Calls, o \in HttpOutcomes : HttpResponse(c, o)
  \/ \E c \in Calls : TimerFires(c)
  \/ \E c \in AppCalls : Return(c)
  \/ \E p \in SignInPayloads : ExternalAuth(p)
  \/ \E sub \in UserDataOpts : ExternalAuthUserData(sub)
  \/ handleSignOut
  \/ Tick

Spec == Init /\ [][Next]_vars

\* retryRequest alone, on every requestFn
NextEngine ==
  \/ \E c \in AppCalls, p \in RetryPolicies : StartRetryRequest(c, p)
  \/ \E c \in AppCalls : RequestFnResolves(c)
  \/ \E c \in AppCalls, e \in EngineFailures : RequestFnRejects(c, e)
  \/ \E c \in AppCalls : TimerFires(c)
  \/ \E c \in AppCalls : Return(c)

SpecEngine == Init /\ [][NextEngine]_vars

\* two calls side by side, each through validateOptions and its refresh
NextRefresh ==
  \/ \E p \in SignInPayloads : ExternalAuth(p)
  \/ Tick
  \/ \E c \in ConcurrentCalls, op \in RetriedOps :
       StartCall(c, op, Options("undefined", "undefined", DefaultPolicy))
  \/ \E c \in ConcurrentCalls, o \in HttpOutcomes : RefreshResponse(c, o)
  \/ \E c \in ConcurrentCalls, r \in BOOLEAN : RefreshPersist(c, r)
  \/ \E c \in ConcurrentCalls : HttpResponse(c, OkOutcome)
  \/ \E c \in ConcurrentCalls : Return(c)

SpecRefresh == Init /\ [][NextRefresh]_vars

\* ================= startup sequencer =================
\* (src/src/main/services/critical-error-handler.ts)

\* mutant: every error is taken as recoverable
isRecoverable_Always(error) == error.name # "none"

\* handleStartupFailure, 247
isRecoverable(error) == error.name = "CriticalStartupError" /\ error.recoverable

\* the buttons of the dialog, 255
Buttons(recoverable) ==
  IF recoverable THEN <<"Retry", "Continue Anyway", "Exit">>
  ELSE <<"Exit", "Report Issue">>

\* handleCriticalStartup (50-55) up to the first Lock.acquireLock() of
\* handleLockAcquisition (77-79); the locals of the run start afresh, the
\* static startupErrors is not touched
StartRun(su, errs) ==
  [su EXCEPT !.pc = "lock", !.attempt = 1, !.lockDelays = <<>>,
             !.serviceIdx = 0, !.steps = <<StartupSteps[1]>>,
             !.initCalls = <<>>, !.initFailed = <<>>, !.recovered = {},
             !.errorsAtStart = Len(errs), !.error = NoStartupError,
             !.runs = @ + 1, !.buttons = <<>>, !.pathCheck = "none",
             !.choice = ""]

\* the catch of handleCriticalStartup (68-69) and handleStartupFailure up to
\* its dialog (243-258)
StartupFailure(su, error) ==
  [su EXCEPT !.pc = "dialog", !.error = error,
             !.buttons = Buttons(isRecoverable(error))]

\* mutant: the storage check is skipped
AfterLock_SkipsStorage(su) ==
  [su EXCEPT !.pc = "paths", !.steps = Append(@, StartupSteps[3])]

\* the lock is acquired (80-81): handleDatabaseInitialization up to db.get
\* (58, 102-104)
AfterLock(su) ==
  [su EXCEPT !.pc = "dbGet", !.steps = Append(@, StartupSteps[2])]

\* the storage check is over: handleSystemPathValidation up to
\* checkIfPathsAreAvailable (61, 173-174)
AfterStorage(su) ==
  [su EXCEPT !.pc = "paths", !.steps = Append(@, StartupSteps[3])]

\* path validation is over: handleEssentialServices up to the init of the
\* first service (64, 213-223)
AfterPaths(su) ==
  [su EXCEPT !.pc = "service", !.steps = Append(@, StartupSteps[4]),
             !.serviceIdx = 1, !.initCalls = <<services[1]>>]

\* the next iteration of the loop over the services (221-223), or the end of
\* handleCriticalStartup (66)
AfterService(su) ==
  IF su.serviceIdx < Len(services)
  THEN [su EXCEPT !.serviceIdx = @ + 1,
                  !.initCalls = Append(@, services[su.serviceIdx + 1])]
  ELSE [su EXCEPT !.pc = "completed"]

\* mutant: the error thrown after the last attempt is marked recoverable
LockCatch_Recoverable(su) ==
  IF su.attempt = MAX_RETRY_ATTEMPTS
  THEN StartupFailure(su, CriticalStartupError(LockFailure.message, "Lock", TRUE))
  ELSE [su EXCEPT !.pc = "lockDelay",
                  !.lockDelays = Append(@, RETRY_DELAY * su.attempt)]

\* mutant: the same delay after every failed attempt
LockCatch_ConstantDelay(su) ==
  IF su.attempt = MAX_RETRY_ATTEMPTS
  THEN StartupFailure(su, LockFailure)
  ELSE [su EXCEPT !.pc = "lockDelay",
                  !.lockDelays = Append(@, RETRY_DELAY)]

\* the catch of handleLockAcquisition (82-94)
LockCatch(su) ==
  IF su.attempt = MAX_RETRY_ATTEMPTS
  THEN StartupFailure(su, LockFailure)
  ELSE [su EXCEPT !.pc = "lockDelay",
                  !.lockDelays = Append(@, RETRY_DELAY * su.attempt)]

\* mutant: a failed init ends the loop over the services
ServiceCatch_Aborts(su, errs, msg) ==
  <<StartupFailure([su EXCEPT !.initFailed = Append(@, services[su.serviceIdx])],
                   ServiceInitFailure(services[su.serviceIdx], msg)),
    errs>>

\* the catch of the loop of handleEssentialServices (225-236): the pair of
\* the sequencer and startupErrors after it
ServiceCatch(su, errs, msg) ==
  <<AfterService([su EXCEPT !.initFailed = Append(@, services[su.serviceIdx])]),
    Append(errs, ServiceInitFailure(services[su.serviceIdx], msg))>>

\* ---- actions ----

\* a call of handleCriticalStartup, when no run is under way
handleCriticalStartup ==
  /\ startup.pc \in {"NotStarted", "completed", "returned"}
  /\ startup.runs < MaxStartupRuns
  /\ startup' = StartRun(startup, startupErrors)
  /\ UNCHANGED <<startupErrors, nonStartupVars>>

\* Lock.acquireLock() resolves (79-81)
LockAcquired ==
  /\ startup.pc = "lock"
  /\ startup' = AfterLock([startup EXCEPT !.lockHeld = TRUE])
  /\ UNCHANGED <<startupErrors, nonStartupVars>>

\* Lock.acquireLock() rejects (82-94)
LockRejected ==
  /\ startup.pc = "lock"
  /\ startup' = LockCatch(startup)
  /\ UNCHANGED <<startupErrors, nonStartupVars>>

\* the delay of line 93 is over: next iteration of the loop of line 77
LockDelayElapsed ==
  /\ startup.pc = "lockDelay"
  /\ startup' = [startup EXCEPT !.pc = "lock", !.attempt = @ + 1]
  /\ UNCHANGED <<startupErrors, nonStartupVars>>

\* db.get(userPreferences) resolves (104-105)
DbGetResolves ==
  /\ startup.pc = "dbGet"
  /\ startup' = AfterStorage(startup)
  /\ UNCHANGED <<startupErrors, nonStartupVars>>

\* db.get rejects (106-110): attemptDatabaseRecovery, createDatabaseBackup,
\* and resetCriticalDatabaseEntries up to its db.put (123-131, 144-155)
DbGetRejects ==
  /\ startup.pc = "dbGet"
  /\ startup' = [startup EXCEPT !.pc = "dbPut"]
  /\ UNCHANGED <<startupErrors, nonStartupVars>>

\* the db.put of the defaults resolves (155-162, 133-134, 112)
DbPutResolves ==
  /\ startup.pc = "dbPut"
  /\ startup' = AfterStorage([startup EXCEPT !.recovered = @ \cup {"storage"}])
  /\ UNCHANGED <<startupErrors, nonStartupVars>>

\* mutant: a failed recovery is not noticed
DbPutRejects_Continues ==
  /\ startup.pc = "dbPut"
  /\ startup' = AfterStorage(startup)
  /\ UNCHANGED <<startupErrors, nonStartupVars>>

\* the db.put of the defaults rejects (163-165, 135-137, 112-116)
DbPutRejects ==
  /\ startup.pc = "dbPut"
  /\ startup' = StartupFailure(startup, DatabaseCorruptionError)
  /\ UNCHANGED <<startupErrors, nonStartupVars>>

\* SystemPath.checkIfPathsAreAvailable() resolves (174-175)
PathsAvailable ==
  /\ startup.pc = "paths"
  /\ startup' = AfterPaths([startup EXCEPT !.pathCheck = "ok"])
  /\ UNCHANGED <<startupErrors, nonStartupVars>>

\* it rejects (176-182): attemptPathRecovery (194-207) does nothing to the
\* paths and returns true
PathsUnavailable ==
  /\ startup.pc = "paths"
  /\ startup' = AfterPaths([startup EXCEPT !.recovered = @ \cup {"paths"},
                                            !.pathCheck = "failed"])
  /\ UNCHANGED <<startupErrors, nonStartupVars>>

\* the init of the current service resolves (223-224)
ServiceInitResolves ==
  /\ startup.pc = "service"
  /\ startup' = AfterService(startup)
  /\ UNCHANGED <<startupErrors, nonStartupVars>>

\* the init of the current service rejects (225-236)
ServiceInitRejects(msg) ==
  /\ startup.pc = "service"
  /\ LET r == ServiceCatch(startup, startupErrors, msg) IN
       /\ startup' = r[1]
       /\ startupErrors' = r[2]
  /\ UNCHANGED nonStartupVars

\* the dialog of handleStartupFailure is answered with button r (250-285),
\* with initializeWithLimitedFunctionality (290-302) and reportIssue (307-335)
DialogResponse(r) ==
  /\ startup.pc = "dialog"
  /\ r \in 0..(Len(startup.buttons) - 1)
  /\ LET rec == isRecoverable(startup.error)
         su == [startup EXCEPT !.choice = startup.buttons[r + 1]]
     IN startup' =
         CASE r = 0 -> IF rec THEN [StartRun(su, startupErrors) EXCEPT !.choice = su.choice]
                       ELSE [su EXCEPT !.pc = "quit"]
           [] r = 1 -> IF rec THEN [su EXCEPT !.pc = "returned", !.limited = TRUE]
                       ELSE [su EXCEPT !.pc = "returned"]
           [] OTHER -> [su EXCEPT !.pc = "quit",
                          !.report = <<[error |-> startup.error,
                                        startupErrors |-> startupErrors,
                                        systemInfo |-> "process"]>>]
  /\ UNCHANGED <<startupErrors, nonStartupVars>>

\* clearStartupErrors (417-419), called between runs
clearStartupErrors ==
  /\ startup.pc \in {"completed", "returned"}
  /\ startupErrors # <<>>
  /\ startupErrors' = <<>>
  /\ UNCHANGED <<startup, nonStartupVars>>

NextStartup ==
  \/ handleCriticalStartup
  \/ LockAcquired
  \/ LockRejected
  \/ LockDelayElapsed
  \/ DbGetResolves
  \/ DbGetRejects
  \/ DbPutResolves
  \/ DbPutRejects
  \/ PathsAvailable
  \/ PathsUnavailable
  \/ ServiceInitResolves
  \/ \E msg \in InitFailureMessages : ServiceInitRejects(msg)
  \/ \E r \in 0..2 : DialogResponse(r)
  \/ clearStartupErrors

SpecStartup == Init /\ [][NextStartup]_vars

\* ================= shutdown sequencer =================
\* (src/src/main/services/critical-error-handler.ts)

\* handleGracefulShutdown up to DownloadManager.stopAllDownloads() (340-345);
\* the locals of the run start afresh
BeginShutdown(sd) ==
  [sd EXCEPT !.pc = "stopDownloads",
             !.log = <<Event(ShutdownSteps[1], "begin")>>,
             !.killResult = "none", !.forceKill = "none",
             !.forceCommand = "", !.runs = @ + 1,
             !.startupAtRelease = <<>>]

\* mutant: the exception leaves handleGracefulShutdown
ShutdownFailure_Propagates(sd, step) ==
  [sd EXCEPT !.pc = "thrown", !.log = Append(@, Event(step, "throw"))]

\* the catch of handleGracefulShutdown (357-361): app.exit(1)
ShutdownFailure(sd, step) ==
  [sd EXCEPT !.pc = "exited", !.log = Append(@, Event(step, "throw")),
             !.exitCode = <<1>>]

\* mutant: the subprocess is terminated before the socket is closed
AfterStopDownloads_KillFirst(sd, disconnectThrows) ==
  [sd EXCEPT !.pc = "kill",
             !.log = @ \o <<Event(ShutdownSteps[1], "end"),
                            Event(ShutdownSteps[3], "begin")>>]

\* stopAllDownloads has resolved: the synchronous WSClient.disconnect(), and
\* killPythonProcesses up to PythonRPC.kill() (348-351, 367-369)
AfterStopDownloads(sd, disconnectThrows) ==
  LET called == [sd EXCEPT !.log = @ \o <<Event(ShutdownSteps[1], "end"),
                                          Event(ShutdownSteps[2], "begin")>>]
  IN IF disconnectThrows THEN ShutdownFailure(called, ShutdownSteps[2])
     ELSE [called EXCEPT !.pc = "kill",
                         !.log = @ \o <<Event(ShutdownSteps[2], "end"),
                                        Event(ShutdownSteps[3], "begin")>>]

\* killPythonProcesses has returned: handleGracefulShutdown up to
\* Lock.releaseLock() (351-354)
AfterKill(sd) ==
  [sd EXCEPT !.pc = "releaseLock",
             !.log = @ \o <<Event(ShutdownSteps[3], "end"),
                            Event(ShutdownSteps[4], "begin")>>]

\* mutant: a failed forced kill ends the shutdown
AfterForceKill_FailureThrows(sd, ok) ==
  IF ok THEN AfterKill([sd EXCEPT !.forceKill = "ok"])
  ELSE ShutdownFailure([sd EXCEPT !.forceKill = "failed"], ShutdownSteps[3])

\* the exec of forceKillPythonProcesses has settled (390-397): its catch
\* swallows a failure, and killPythonProcesses returns (375-376)
AfterForceKill(sd, ok) ==
  AfterKill([sd EXCEPT !.forceKill = IF ok THEN "ok" ELSE "failed"])

\* the process is still there: app.exit(1) has not been called
ProcessAlive == shutdown.exitCode = <<>>

\* ---- actions ----

\* a call of handleGracefulShutdown, when no run is under way
handleGracefulShutdown ==
  /\ shutdown.pc \in {"idle", "done"}
  /\ shutdown.runs < MaxShutdownRuns
  /\ shutdown' = BeginShutdown(shutdown)
  /\ UNCHANGED <<startup, nonShutdownVars>>

\* DownloadManager.stopAllDownloads() resolves (345-351)
StopDownloadsResolves(disconnectThrows) ==
  /\ shutdown.pc = "stopDownloads"
  /\ shutdown' = AfterStopDownloads(shutdown, disconnectThrows)
  /\ UNCHANGED <<startup, nonShutdownVars>>

\* it rejects (345, 357-361)
StopDownloadsRejects ==
  /\ shutdown.pc = "stopDownloads"
  /\ shutdown' = ShutdownFailure(shutdown, ShutdownSteps[1])
  /\ UNCHANGED <<startup, nonShutdownVars>>

\* PythonRPC.kill() resolves (369-370, 351-354)
KillResolves ==
  /\ shutdown.pc = "kill"
  /\ shutdown' = AfterKill([shutdown EXCEPT !.killResult = "ok"])
  /\ UNCHANGED <<startup, nonShutdownVars>>

\* PythonRPC.kill() rejects (371-375): forceKillPythonProcesses up to its
\* exec (382-394); process.platform is the same in every run
KillRejects(platform) ==
  /\ shutdown.pc = "kill"
  /\ shutdown.platform \in {"", platform}
  /\ shutdown' = [shutdown EXCEPT !.pc = "forceKill", !.killResult = "failed",
                                  !.platform = platform,
                                  !.forceCommand = forceKillCommand(platform)]
  /\ UNCHANGED <<startup, nonShutdownVars>>

\* the exec of the forced kill resolves or rejects (390-397)
ForceKillSettles(ok) ==
  /\ shutdown.pc = "forceKill"
  /\ shutdown' = AfterForceKill(shutdown, ok)
  /\ UNCHANGED <<startup, nonShutdownVars>>

\* Lock.releaseLock() resolves (354-356)
ReleaseLockResolves ==
  /\ shutdown.pc = "releaseLock"
  /\ shutdown' = [shutdown EXCEPT !.pc = "done",
                                  !.log = Append(@, Event(ShutdownSteps[4], "end")),
                                  !.startupAtRelease = <<startup.runs, startup.pc>>]
  /\ startup' = [startup EXCEPT !.lockHeld = FALSE]
  /\ UNCHANGED nonShutdownVars

\* Lock.releaseLock() rejects (354, 357-361)
ReleaseLockRejects ==
  /\ shutdown.pc = "releaseLock"
  /\ shutdown' = ShutdownFailure(shutdown, ShutdownSteps[4])
  /\ UNCHANGED <<startup, nonShutdownVars>>

\* the shutdown sequencer, and the startup sequencer beside it for as long as
\* the process is there
NextShutdown ==
  \/ handleGracefulShutdown
  \/ \E disconnectThrows \in BOOLEAN : StopDownloadsResolves(disconnectThrows)
  \/ StopDownloadsRejects
  \/ KillResolves
  \/ \E platform \in Platforms : KillRejects(platform)
  \/ \E ok \in BOOLEAN : ForceKillSettles(ok)
  \/ ReleaseLockResolves
  \/ ReleaseLockRejects
  \/ ProcessAlive /\ handleCriticalStartup
  \/ ProcessAlive /\ LockAcquired
  \/ ProcessAlive /\ LockRejected
  \/ ProcessAlive /\ LockDelayElapsed
  \/ ProcessAlive /\ DbGetResolves
  \/ ProcessAlive /\ DbGetRejects
  \/ ProcessAlive /\ DbPutResolves
  \/ ProcessAlive /\ DbPutRejects
  \/ ProcessAlive /\ PathsAvailable
  \/ ProcessAlive /\ PathsUnavailable
  \/ ProcessAlive /\ ServiceInitResolves
  \/ \E r \in 0..2 : ProcessAlive /\ DialogResponse(r)

SpecShutdown == Init /\ [][NextShutdown]_vars

\* ================= catalogue search, main process =================
\* (src/src/main/events/catalogue/search-games.ts)

\* the catch of searchGames (60-66)
searchGames_catch(sg, error) ==
  [sg EXCEPT !.pc = "returned", !.caught = error,
             !.result = <<[edges |-> slice(mockGames, sg.skip, sg.skip + sg.take),
                           count |-> Len(mockGames)]>>]

\* searchGames is invoked (48-58): HydraApi.post("/catalogue/search",
\* {...payload, take, skip}, {needsAuth: false})
searchGames(take, skip) ==
  /\ search.pc = "idle"
  /\ search' = [SearchIdle EXCEPT !.pc = "post", !.take = take, !.skip = skip,
                                  !.sent = <<[url |-> "/catalogue/search",
                                              take |-> take, skip |-> skip,
                                              needsAuth |-> "false"]>>]
  /\ UNCHANGED <<catalogue, nonUiVars>>

\* the post resolves (55-59)
SearchPostResolves(page) ==
  /\ search.pc = "post"
  /\ search' = [search EXCEPT !.pc = "returned", !.result = <<page>>]
  /\ UNCHANGED <<catalogue, nonUiVars>>

\* the post rejects (60-66)
SearchPostRejects(error) ==
  /\ search.pc = "post"
  /\ search' = searchGames_catch(search, error)
  /\ UNCHANGED <<catalogue, nonUiVars>>

\* the reply has gone to the renderer: the handler can be invoked again
SearchReplied ==
  /\ search.pc = "returned"
  /\ search' = SearchIdle
  /\ UNCHANGED <<catalogue, nonUiVars>>

NextSearch ==
  \/ \E take \in 0..MaxTake, skip \in 0..MaxSkip : searchGames(take, skip)
  \/ \E page \in BackendPages : SearchPostResolves(page)
  \/ \E error \in PostFailures : SearchPostRejects(error)
  \/ SearchReplied

SpecSearch == Init /\ [][NextSearch]_vars

\* ================= catalogue page, renderer =================
\* (src/unnamed/part_000)

\* abortControllerRef.current?.abort() (143)
abort(controllers, ref) ==
  IF ref = 0 THEN controllers
  ELSE [controllers EXCEPT ![ref].aborted = TRUE]

\* the search of controller i got its response (123-126, 133)
OnResponse(cat, i) ==
  IF cat.controllers[i].aborted
  THEN [cat EXCEPT !.controllers[i].settled = TRUE]
  ELSE [cat EXCEPT !.controllers[i].settled = TRUE,
                   !.results = Shown("response", i),
                   !.itemsCount = Shown("response", i),
                   !.isLoading = FALSE]

\* the filters or the page change, or the page is mounted: the cleanup of the
\* effect before (147-149) and the effect (140-145)
FiltersEffect ==
  /\ catalogue.query < MaxFilterChanges
  /\ catalogue' =
       [catalogue EXCEPT !.query = @ + 1,
                         !.results = Shown("empty", 0),
                         !.isLoading = TRUE,
                         !.controllers = abort(@, catalogue.abortControllerRef),
                         !.timer = <<catalogue.query + 1>>]
  /\ UNCHANGED <<search, nonUiVars>>

\* the 500 ms of the debounce are over (112-121): a new controller, and the
\* call of window.electron.searchGames
DebounceFires ==
  /\ catalogue.timer # <<>>
  /\ catalogue' =
       [catalogue EXCEPT !.timer = <<>>,
                         !.controllers = Append(@, [query |-> catalogue.timer[1],
                                                    aborted |-> FALSE,
                                                    settled |-> FALSE]),
                         !.abortControllerRef = Len(catalogue.controllers) + 1]
  /\ UNCHANGED <<search, nonUiVars>>

\* window.electron.searchGames resolves for the search of controller i
SearchResolves(i) ==
  /\ i \in 1..Len(catalogue.controllers)
  /\ ~catalogue.controllers[i].settled
  /\ catalogue' = OnResponse(catalogue, i)
  /\ UNCHANGED <<search, nonUiVars>>

\* it rejects (127-133)
SearchRejects(i) ==
  /\ i \in 1..Len(catalogue.controllers)
  /\ ~catalogue.controllers[i].settled
  /\ catalogue' = [catalogue EXCEPT !.controllers[i].settled = TRUE,
                                    !.results = Shown("mock", i),
                                    !.itemsCount = Shown("mock", i),
                                    !.isLoading = FALSE]
  /\ UNCHANGED <<search, nonUiVars>>

NextCatalogue ==
  \/ FiltersEffect
  \/ DebounceFires
  \/ \E i \in 1..MaxFilterChanges : SearchResolves(i)
  \/ \E i \in 1..MaxFilterChanges : SearchRejects(i)

SpecCatalogue == Init /\ [][NextCatalogue]_vars

\* ======================= claims =======================

AllEmpty(a) == a.authToken = "" /\ a.refreshToken = "" /\ a.expirationTimestamp = 0
AllPopulated(a) == a.authToken # "" /\ a.refreshToken # "" /\ a.expirationTimestamp # 0

\* a 5xx response or no response at all, as the last outcome of the call
RetryableOutcome(s) ==
  \/ s.lastOutcome = "noresponse"
  \/ s.lastOutcome = "response" /\ s.lastError.status >= 500 /\ s.lastError.status < 600

RunsThroughEngine(s) == s.op \in RetriedOps \cup {EngineOp}

\* C1: after every Session transition accessToken, refreshToken and expiresAt
\* are all empty or all populated
C1_SessionAllOrNothing == AllEmpty(userAuth) \/ AllPopulated(userAuth)

\* C2: a call run through the retry engine that failed on a retryable failure
\* (no response, or a 5xx status) was invoked exactly retryAttempts + 1 times
C2_RetryableInvokedNPlusOne ==
  \A c \in Calls :
    (calls[c].pc = "done" /\ ~calls[c].ok /\ RunsThroughEngine(calls[c])
       /\ RetryableOutcome(calls[c]))
    => calls[c].invocations = calls[c].retryAttempts + 1

\* C3: a failure of requestFn that is HTTP 401, UserNotLoggedInError or
\* SubscriptionRequiredError ends the run at once: that invocation is the last
\* (the only one when it is the first), no delay follows it, and the failure
\* itself is what the caller gets
NonRetryableAuth(e) ==
  \/ e.class \in {"UserNotLoggedInError", "SubscriptionRequiredError"}
  \/ e.class = "AxiosError" /\ e.status = 401
C3_NonRetryableOnce ==
  \A c \in Calls :
    NonRetryableAuth(calls[c].lastError)
    => /\ calls[c].pc = "done"
       /\ calls[c].error = calls[c].lastError
       /\ Len(calls[c].delays) = calls[c].attempt
       /\ calls[c].invocations = calls[c].attempt + 1
       /\ (calls[c].attempt = 0 => calls[c].invocations = 1 /\ calls[c].delays = <<>>)
C3_Witness ==
  /\ calls["c1"].pc = "done"
  /\ calls["c1"].lastError = UserNotLoggedInError
  /\ calls["c1"].retryAttempts = DEFAULT_RETRY_ATTEMPTS
  /\ calls["c1"].invocations = 1
  /\ calls["c1"].delays = <<>>

\* C4: the step in which get/post/put/patch/delete receives a 401 response
\* empties the Session, sends the sign-out message (when there is a window to
\* send it to) and ends the call with that 401 error, without another attempt
C4_UnauthorizedResets ==
  [][\A c \in AppCalls :
       (/\ calls[c].pc = "request"
        /\ calls[c].op \in HttpOps
        /\ calls'[c] # calls[c]
        /\ calls'[c].lastOutcome = "response"
        /\ calls'[c].lastError.status = 401)
       => /\ userAuth' = EmptyAuth
          /\ windowEvent' \in {"on-signout", "no-window"}
          /\ calls'[c].pc = "done"
          /\ calls'[c].error = AxiosError(401, "ERR_BAD_RESPONSE")
          /\ calls'[c].invocations = calls[c].invocations
          /\ calls'[c].delays = calls[c].delays]_vars
C4_Witness ==
  /\ calls["c1"].pc = "done"
  /\ calls["c1"].op = "put"
  /\ calls["c1"].sent = "a1"
  /\ calls["c1"].error = AxiosError(401, "ERR_BAD_RESPONSE")
  /\ calls["c1"].invocations = 1
  /\ userAuth = EmptyAuth
  /\ windowEvent = "on-signout"

\* C5: a call through the retry engine that failed on no response fails with
\* BackendUnavailableError, one that failed on a 5xx response fails with a
\* NetworkError naming that status, and a 401 gives neither
C5_ExhaustedErrorKinds ==
  \A c \in Calls :
    (calls[c].pc = "done" /\ ~calls[c].ok /\ calls[c].op \in RetriedOps)
    => /\ calls[c].lastOutcome = "noresponse"
            => calls[c].error = BackendUnavailableError
       /\ (calls[c].lastOutcome = "response" /\ calls[c].lastError.status >= 500)
            => calls[c].error = NetworkError("Server error", calls[c].lastError.status)
       /\ (calls[c].lastOutcome = "response" /\ calls[c].lastError.status = 401)
            => calls[c].error.class \notin {"NetworkError", "BackendUnavailableError"}

\* C6: each of get, post, put, patch and delete is retried with the default
\* policy: a call without a policy of its own that failed on a 5xx response was
\* invoked DEFAULT_RETRY_ATTEMPTS + 1 times
C6_AllOpsRetried ==
  \A c \in Calls :
    (calls[c].pc = "done" /\ ~calls[c].ok /\ calls[c].op \in HttpOps
       /\ calls[c].retryAttempts = DEFAULT_RETRY_ATTEMPTS
       /\ calls[c].lastOutcome = "response" /\ calls[c].lastError.status >= 500)
    => calls[c].invocations = DEFAULT_RETRY_ATTEMPTS + 1

\* C7: a call through the retry engine that failed on a 4xx response was not
\* invoked again and its caller gets that very failure
C7_NonRetryableRethrown ==
  \A c \in Calls :
    (calls[c].pc = "done" /\ ~calls[c].ok /\ RunsThroughEngine(calls[c])
       /\ calls[c].lastError.class = "AxiosError"
       /\ calls[c].lastError.status >= 400 /\ calls[c].lastError.status < 500)
    => /\ calls[c].invocations = calls[c].attempt + 1
       /\ calls[c].error = calls[c].lastError

\* C8: the i-th delay of a run is retryDelay * 2^(i-1), one delay per failed
\* attempt but none after the last attempt; a get with the default policy that
\* fails on 503 was invoked 4 times, waited 1000, 2000 and 4000 ms (7000 in
\* all) and fails with the NetworkError of a server error 503
C8_ExponentialBackoff ==
  \A c \in Calls :
    LET s == calls[c] IN
    /\ \A i \in 1..Len(s.delays) : s.delays[i] = s.retryDelay * Pow2(i - 1)
    /\ Len(s.delays) = IF s.pc = "delay" THEN s.attempt + 1 ELSE s.attempt
    /\ Len(s.delays) <= s.retryAttempts
    /\ (/\ s.pc = "done" /\ ~s.ok /\ s.op = "get"
        /\ s.retryAttempts = DEFAULT_RETRY_ATTEMPTS
        /\ s.retryDelay = DEFAULT_RETRY_DELAY
        /\ s.lastOutcome = "response" /\ s.lastError.status = 503)
       => /\ s.invocations = 4
          /\ s.delays = <<1000, 2000, 4000>>
          /\ SumSeq(s.delays) = 7000
          /\ s.error = NetworkError("Server error", 503)
C8_Witness ==
  /\ calls["c1"].pc = "done"
  /\ calls["c1"].op = "get"
  /\ calls["c1"].delays = <<1000, 2000, 4000>>
  /\ calls["c1"].invocations = 4
  /\ calls["c1"].error = NetworkError("Server error", 503)

\* C9: once an invocation has succeeded the run is over: the call resolves,
\* and the successful invocation is the last one (one invocation per delay
\* waited, plus the first)
C9_FirstSuccessReturns ==
  \A c \in Calls :
    /\ calls[c].lastOutcome = "ok"
         => /\ calls[c].pc = "done"
            /\ calls[c].ok
            /\ calls[c].error = NoError
            /\ calls[c].invocations = Len(calls[c].delays) + 1
            /\ calls[c].invocations <= calls[c].retryAttempts + 1
    /\ (calls[c].pc = "done" /\ calls[c].ok) => calls[c].lastOutcome = "ok"
C9_Witness ==
  /\ calls["c1"].pc = "done"
  /\ calls["c1"].ok
  /\ calls["c1"].op = "post"
  /\ calls["c1"].lastError.status = 503
  /\ calls["c1"].invocations = 3
  /\ calls["c1"].delays = <<1000, 2000>>

\* C10: a call started while the Session is signed out with needsAuth true or
\* unspecified fails at once with UserNotLoggedInError, before any request or
\* refresh; UserNotLoggedInError never comes out of a call with needsAuth false
C10_SignedOutNeedsAuth ==
  [][\A c \in AppCalls :
       /\ (calls[c].pc = "idle" /\ calls'[c].pc # "idle" /\ calls'[c].op \in HttpOps)
          => IF calls'[c].needsAuth \in {"true", "undefined"} /\ userAuth.authToken = ""
             THEN /\ calls'[c].pc = "done"
                  /\ calls'[c].error = UserNotLoggedInError
                  /\ calls'[c].invocations = 0
             ELSE calls'[c].error # UserNotLoggedInError
       /\ calls'[c].error = UserNotLoggedInError
          => /\ calls'[c].needsAuth # "false"
             /\ calls'[c].invocations = 0]_vars
C10_Witness ==
  /\ calls["c1"].pc = "done"
  /\ calls["c1"].op = "patch"
  /\ calls["c1"].needsAuth = "undefined"
  /\ calls["c1"].error = UserNotLoggedInError
  /\ calls["c1"].invocations = 0
  /\ userAuth = EmptyAuth

\* a subscription is active: present, with expiresAt later than now
SubscriptionActive == userAuth.subscription # <<>> /\ userAuth.subscription[1] > now

\* the step in which call c gets past the authentication precondition: at its
\* start (needsAuth false, or signed in with a token that has not expired), or
\* when its token refresh has been persisted
PassesAuth(c) ==
  \/ /\ calls[c].pc = "idle" /\ calls'[c].pc # "idle" /\ calls'[c].op \in HttpOps
     /\ \/ calls'[c].needsAuth = "false"
        \/ userAuth.authToken # "" /\ ~(userAuth.expirationTimestamp < now)
  \/ /\ calls[c].pc = "persist" /\ calls'[c].pc # "persist"
     /\ calls'[c].error # LevelNotFound

\* C11: a call with needsSubscription true that gets past the authentication
\* precondition while no subscription is active fails with
\* SubscriptionRequiredError and sends no request; with needsSubscription
\* unspecified the subscription is not looked at: the call goes on to its
\* request, and SubscriptionRequiredError never comes out of it
C11_SubscriptionRequired ==
  [][\A c \in AppCalls :
       /\ (PassesAuth(c) /\ calls'[c].needsSubscription = "true" /\ ~SubscriptionActive)
          => /\ calls'[c].pc = "done"
             /\ calls'[c].error = SubscriptionRequiredError
             /\ calls'[c].invocations = 0
       /\ (PassesAuth(c) /\ calls'[c].needsSubscription = "true" /\ SubscriptionActive)
          => calls'[c].pc = "request" /\ calls'[c].invocations = 1
       /\ (PassesAuth(c) /\ calls'[c].needsSubscription # "true")
          => calls'[c].pc = "request" /\ calls'[c].invocations = 1
       /\ calls'[c].error = SubscriptionRequiredError
          => /\ calls'[c].needsSubscription = "true"
             /\ calls'[c].invocations = 0]_vars
C11_Witness ==
  /\ calls["c1"].pc = "done"
  /\ calls["c1"].needsSubscription = "true"
  /\ calls["c1"].error = SubscriptionRequiredError
  /\ calls["c1"].invocations = 0
  /\ userAuth.authToken = "a2"
  /\ userAuth.subscription # <<>>
  /\ userAuth.subscription[1] = now

RefreshFails(c) ==
  /\ calls[c].pc \in {"refresh", "persist"}
  /\ calls'[c].pc = "done"
  /\ calls'[c].lastError # NoError

\* C13 as stated: whatever makes the refresh fail, the Session is reset to
\* empty, the sign-out message is sent, the error is propagated and the
\* request is not sent
C13_RefreshFailureResets ==
  [][\A c \in AppCalls :
       RefreshFails(c)
       => /\ userAuth' = EmptyAuth
          /\ windowEvent' \in {"on-signout", "no-window"}
          /\ calls'[c].error = calls'[c].lastError
          /\ calls'[c].invocations = 0]_vars

\* C13 amended: whenever the refresh fails its error is propagated and the
\* request is not sent; the Session is reset, the persisted record removed and
\* the sign-out message sent (when there is a window) if the failure is a 401
\* response, and otherwise Session and record stay as they are and nothing is
\* sent
C13_RefreshFailurePropagates ==
  [][\A c \in AppCalls :
       RefreshFails(c)
       => /\ calls'[c].error = calls'[c].lastError
          /\ calls'[c].error # NoError
          /\ calls'[c].invocations = 0
          /\ calls'[c].sent = ""
          /\ IF calls'[c].error.class = "AxiosError" /\ calls'[c].error.status = 401
             THEN /\ userAuth' = EmptyAuth
                  /\ dbAuth' = <<>>
                  /\ windowEvent' \in {"on-signout", "no-window"}
             ELSE /\ userAuth' = userAuth
                  /\ dbAuth' = dbAuth
                  /\ windowEvent' = "none"]_vars
C13_Witness ==
  /\ calls["c1"].pc = "done"
  /\ calls["c1"].error = AxiosError(503, "ERR_BAD_RESPONSE")
  /\ calls["c1"].invocations = 0
  /\ calls["c1"].lastOutcome = "none"
  /\ userAuth.authToken = "a1"
  /\ userAuth.refreshToken = "r1"
  /\ userAuth.expirationTimestamp < now

\* C14: under every interleaving the Session is never left with an access
\* token and no refresh token, nor with a refresh token and no access token
C14_NoPartialSession ==
  /\ ~(userAuth.authToken # "" /\ userAuth.refreshToken = "")
  /\ ~(userAuth.authToken = "" /\ userAuth.refreshToken # "")

\* C15: handleSignOut leaves the Session empty, and its /auth/logout request is
\* sent once: it is never invoked a second time and waits for no retry delay
C15_LogoutSentOnce ==
  [][/\ (calls[LogoutCall].pc = "idle" /\ calls'[LogoutCall].pc # "idle")
        => /\ userAuth' = EmptyAuth
           /\ calls'[LogoutCall].invocations = 1
     /\ calls'[LogoutCall].invocations <= 1
     /\ calls'[LogoutCall].pc # "delay"]_vars

\* C16: every step that takes the Session from signed in to empty sends the
\* sign-out message (when there is a window to send it to)
C16_SignOutNotified ==
  [][(userAuth.authToken # "" /\ userAuth' = EmptyAuth)
       => windowEvent' \in {"on-signout", "no-window"}]_vars

\* C17: the expiry stored by a sign-in or a refresh at time t with expiresIn e
\* is t + e * 1000 - 300000, and a call that needs authentication and is
\* validated after the stored expiry starts with a refresh
C17_ExpirySkew ==
  [][/\ (signIn = "idle" /\ signIn' = "userData")
        => \E p \in SignInPayloads :
             /\ userAuth'.authToken = p.accessToken
             /\ userAuth'.expirationTimestamp = now + p.expiresIn * 1000 - 300000
             /\ dbAuth'[1].tokenExpirationTimestamp = userAuth'.expirationTimestamp
     /\ \A c \in AppCalls :
          /\ (calls[c].pc = "refresh" /\ calls'[c].pc = "persist")
             => \E d \in RefreshData :
                  /\ userAuth'.authToken = d.accessToken
                  /\ userAuth'.expirationTimestamp = now + d.expiresIn * 1000 - 300000
          /\ (calls[c].pc = "persist" /\ calls'[c].pc = "request")
             => dbAuth'[1].tokenExpirationTimestamp = calls[c].refreshed[2]
          /\ (/\ calls[c].pc = "idle" /\ calls'[c].pc # "idle" /\ calls'[c].op \in HttpOps
              /\ calls'[c].needsAuth # "false"
              /\ userAuth.authToken # "" /\ now > userAuth.expirationTimestamp)
             => calls'[c].pc = "refresh"]_vars
C17_Witness ==
  /\ userAuth.authToken = "a2"
  /\ userAuth.expirationTimestamp = StartTime + TickMs + 600000 - 300000
  /\ now = StartTime + TickMs
  /\ dbAuth # <<>> /\ dbAuth[1].tokenExpirationTimestamp = userAuth.expirationTimestamp
  /\ calls["c1"].pc = "request"

IsPrefix(s, t) == Len(s) <= Len(t) /\ \A i \in 1..Len(s) : s[i] = t[i]

\* C18: the steps a run has begun are a prefix of lock acquisition, storage
\* check, path validation, service initialization, each begun once; a step
\* begins in the step that ends the one before it; the list starts again only
\* when a new run of the sequence starts, and then with lock acquisition
C18_StrictOrder ==
  [][/\ IsPrefix(startup'.steps, <<"lock", "storage", "paths", "services">>)
     /\ Len(startup'.steps) =
          CASE startup'.pc \in {"lock", "lockDelay"} -> 1
            [] startup'.pc \in {"dbGet", "dbPut"} -> 2
            [] startup'.pc = "paths" -> 3
            [] startup'.pc \in {"service", "completed"} -> 4
            [] OTHER -> Len(startup'.steps)
     /\ startup'.steps # startup.steps
        => \/ /\ startup'.runs = startup.runs
              /\ startup'.steps = SubSeq(<<"lock", "storage", "paths", "services">>,
                                         1, Len(startup.steps) + 1)
              /\ startup.pc =
                   CASE Len(startup.steps) = 1 -> "lock"
                     [] Len(startup.steps) = 2 -> IF "storage" \in startup'.recovered
                                                  THEN "dbPut" ELSE "dbGet"
                     [] OTHER -> "paths"
           \/ /\ startup'.runs = startup.runs + 1
              /\ startup'.steps = <<"lock">>
              /\ startup'.pc = "lock"
              /\ startup.pc \in {"NotStarted", "completed", "returned", "dialog"}]_vars
C18_Witness ==
  /\ startup.pc = "completed"
  /\ startup.steps = <<"lock", "storage", "paths", "services">>
  /\ startup.recovered = {"storage", "paths"}
  /\ startup.lockDelays = <<2000, 4000>>
  /\ startup.runs = 2

\* what a run has done for the services so far: the inits invoked are the
\* first ones of the declared list, each once, and the entries the run has
\* added to startupErrors are one recoverable CriticalStartupError per failed
\* init, in the order of the failures
ServicesDone(su, errs) ==
  /\ su.initCalls = SubSeq(<<"PythonRPC", "HydraApi", "DownloadManager",
                             "CommonRedistManager", "Ludusavi">>, 1, Len(su.initCalls))
  /\ Len(su.initCalls) = IF su.pc = "completed" THEN 5 ELSE su.serviceIdx
  /\ Len(errs) = su.errorsAtStart + Len(su.initFailed)
  /\ \A i \in 1..Len(su.initFailed) :
       LET e == errs[su.errorsAtStart + i] IN
       /\ e.name = "CriticalStartupError"
       /\ e.component = su.initFailed[i]
       /\ e.recoverable
       /\ e.message[1] = su.initFailed[i]
  /\ su.error = NoStartupError

\* C19: during service initialization every service of the list has its init
\* invoked once, in declared order, whichever earlier ones failed; the run adds
\* to the accumulated entries exactly one recoverable entry per failed init, in
\* invocation order (they are the whole list when it was empty at the start of
\* the run), and the run completes instead of failing
C19_AllServicesInitialized ==
  [][/\ startup'.pc = "service" => ServicesDone(startup', startupErrors')
     /\ startup.pc = "service"
        => /\ startup'.pc \in {"service", "completed"}
           /\ ServicesDone(startup', startupErrors')
           /\ (startup'.pc = "completed" /\ startup.errorsAtStart = 0)
              => Len(startupErrors') = Len(startup'.initFailed)]_vars
C19_Witness ==
  /\ startup.pc = "completed"
  /\ startup.initCalls = services
  /\ startup.initFailed = <<"HydraApi", "CommonRedistManager">>
  /\ Len(startupErrors) = 2
  /\ startupErrors[1].component = "HydraApi"
  /\ startupErrors[2].component = "CommonRedistManager"
  /\ startupErrors[2].recoverable

\* C20: a third failed attempt to acquire the lock ends the run with a
\* non-recoverable CriticalStartupError of component 'Lock', after 3 attempts,
\* and in a run that ended so neither the storage check nor the path
\* validation nor any service init was begun
C20_LockFailureIsFatal ==
  [][/\ (startup.pc = "lock" /\ startup.attempt = 3 /\ startup'.pc \notin {"lock", "dbGet"})
        => /\ startup'.pc = "dialog"
           /\ startup'.error.name = "CriticalStartupError"
           /\ startup'.error.component = "Lock"
     /\ startup'.error.component = "Lock"
        => /\ startup'.error.name = "CriticalStartupError"
           /\ ~startup'.error.recoverable
           /\ startup'.attempt = 3
           /\ startup'.steps = <<"lock">>
           /\ startup'.initCalls = <<>>
           /\ startup'.recovered = {}
           /\ startup'.pc \in {"dialog", "quit", "returned"}]_vars
C20_Witness ==
  /\ startup.pc = "dialog"
  /\ startup.error.component = "Lock"
  /\ ~startup.error.recoverable
  /\ startup.attempt = 3
  /\ startup.steps = <<"lock">>
  /\ startup.initCalls = <<>>

\* C21: when the lock could not be acquired in 3 attempts, delays of 2 s, 4 s
\* and 6 s were waited, one after each failed attempt, and the run ended with
\* the non-recoverable error of component 'Lock' after 3 attempts
C21_DelaysTwoFourSix ==
  startup.error.component = "Lock"
  => /\ startup.lockDelays = <<2000, 4000, 6000>>
     /\ startup.attempt = 3
     /\ ~startup.error.recoverable

\* C22: the i-th delay of lock acquisition is 2000 * i ms and one delay lies
\* between two attempts; a run that got the lock at its 3rd attempt called
\* acquire 3 times, waited 2000 and 4000 ms (6000 in all) before the 3rd
\* attempt, holds the lock and has gone on to the storage check
C22_LinearBackoff ==
  /\ \A i \in 1..Len(startup.lockDelays) : startup.lockDelays[i] = 2000 * i
  /\ startup.pc # "NotStarted"
     => Len(startup.lockDelays) =
          IF startup.pc = "lockDelay" THEN startup.attempt ELSE startup.attempt - 1
  /\ startup.attempt <= 3
  /\ Len(startup.steps) >= 2 => startup.lockHeld
  /\ (Len(startup.steps) >= 2 /\ startup.attempt = 3)
     => /\ startup.lockDelays = <<2000, 4000>>
        /\ SumSeq(startup.lockDelays) = 2000 * 1 + 2000 * 2
        /\ startup.steps[2] = "storage"
C22_Witness ==
  /\ startup.pc = "completed"
  /\ startup.attempt = 3
  /\ startup.lockDelays = <<2000, 4000>>
  /\ startup.lockHeld
  /\ startup.initCalls = services

C24_PathFailureIsFatal ==
  startup.pathCheck = "failed"
  => /\ startup.error.name = "SystemPathError"
     /\ startup.initCalls = <<>>
     /\ startup.pc \in {"dialog", "quit", "returned"}

\* C25: the list of startup errors is empty when a run of the sequence starts,
\* and during service initialization it holds the failures of that run only
C25_ErrorsOfOneRun ==
  [][/\ startup'.runs = startup.runs + 1 => startupErrors' = <<>>
     /\ startup'.pc = "service"
        => Len(startupErrors') = Len(startup'.initFailed)]_vars

HasButton(b) == \E i \in 1..Len(startup.buttons) : startup.buttons[i] = b

C27_RecoverableOffersContinue ==
  (startup.pc = "completed" /\ startup.initFailed # <<>>)
  => HasButton("Continue Anyway") /\ HasButton("Retry")

\* C28: each button of the prompt does what its label says: Report Issue
\* produces the diagnostic record (the error, the accumulated startup errors,
\* the platform data) and quits, Exit quits, Retry starts a new run, Continue
\* Anyway returns in limited mode
C28_ButtonsDoWhatTheySay ==
  [][(startup.pc = "dialog" /\ startup'.pc # "dialog")
       => /\ startup'.choice = "Report Issue"
             => /\ startup'.report # <<>>
                /\ startup'.report[1].error = startup.error
                /\ startup'.report[1].startupErrors = startupErrors
                /\ startup'.pc = "quit"
          /\ startup'.choice = "Exit"
             => startup'.pc = "quit" /\ startup'.report = startup.report
          /\ startup'.choice = "Retry" => startup'.runs = startup.runs + 1
          /\ startup'.choice = "Continue Anyway"
             => startup'.pc = "returned" /\ startup'.limited]_vars

\* ---- shutdown sequencer ----
IsBegin(e) == e.ev = "begin"
\* the step of handleGracefulShutdown before the given one
StepBefore(step) ==
  ShutdownSteps[(CHOOSE i \in 2..Len(ShutdownSteps) : ShutdownSteps[i] = step) - 1]

\* C29: handleGracefulShutdown calls its steps in the order stop the
\* downloads, close the socket, terminate the subprocess, release the lock:
\* the calls of a run are the first steps of that list, each call but the
\* first comes right after the return of the step before it, and a step
\* returns or throws only right after its own call.
C29_FixedOrder ==
  LET log == shutdown.log
      begins == SelectSeq(log, IsBegin)
  IN /\ Len(begins) <= Len(ShutdownSteps)
     /\ \A i \in 1..Len(begins) : begins[i].step = ShutdownSteps[i]
     /\ \A i \in 1..Len(log) :
          IF log[i].ev = "begin"
          THEN IF log[i].step = ShutdownSteps[1] THEN i = 1
               ELSE i > 1 /\ log[i - 1] = Event(StepBefore(log[i].step), "end")
          ELSE i > 1 /\ log[i - 1] = Event(log[i].step, "begin")
\* a run that went through all four steps
C29_Witness ==
  /\ shutdown.pc = "done"
  /\ Len(shutdown.log) = 2 * Len(ShutdownSteps)

\* C30: when PythonRPC.kill() has failed in a shutdown, the forced kill is
\* started with the command of the platform, and once it has settled, with
\* success or with failure, Lock.releaseLock() has been called.
C30_ForcedKillThenRelease ==
  shutdown.killResult = "failed" =>
    /\ shutdown.platform \in Platforms
    /\ shutdown.forceCommand = forceKillCommand(shutdown.platform)
    /\ \/ shutdown.pc = "forceKill" /\ shutdown.forceKill = "none"
       \/ /\ shutdown.forceKill \in {"ok", "failed"}
          /\ shutdown.pc \in {"releaseLock", "done", "exited"}
          /\ \E i \in 2..Len(shutdown.log) :
               /\ shutdown.log[i] = Event(ShutdownSteps[4], "begin")
               /\ shutdown.log[i - 1] = Event(ShutdownSteps[3], "end")
\* both kills failed and the lock was released all the same
C30_Witness ==
  /\ shutdown.killResult = "failed"
  /\ shutdown.forceKill = "failed"
  /\ shutdown.pc = "done"
  /\ ~startup.lockHeld

HasEvent(step, ev) ==
  \E i \in 1..Len(shutdown.log) : shutdown.log[i] = Event(step, ev)
ShutdownInProgress ==
  shutdown.pc \in {"stopDownloads", "kill", "forceKill", "releaseLock"}

\* C31: a step of the shutdown sequence that throws is the last thing the
\* run does and ends in app.exit with a non-zero code; a run that is over
\* has either completed all four steps or called that exit, and no exception
\* leaves handleGracefulShutdown.
C31_ThrowForcesExit ==
  /\ \A i \in 1..Len(shutdown.log) :
        shutdown.log[i].ev = "throw"
        => /\ i = Len(shutdown.log)
           /\ shutdown.pc = "exited"
           /\ Len(shutdown.exitCode) = 1 /\ shutdown.exitCode[1] # 0
  /\ shutdown.runs > 0 /\ ~ShutdownInProgress
     => \/ /\ shutdown.pc = "done"
           /\ HasEvent(ShutdownSteps[4], "end")
           /\ shutdown.exitCode = <<>>
        \/ /\ shutdown.pc = "exited"
           /\ shutdown.log[Len(shutdown.log)].ev = "throw"
\* the lock release threw after the three steps before it, and the process
\* was exited
C31_Witness ==
  /\ shutdown.pc = "exited"
  /\ HasEvent(ShutdownSteps[4], "throw")
  /\ shutdown.exitCode = <<1>>

\* C38: every run of handleGracefulShutdown that is over has called the
\* termination of the subprocess and the release of the lock
C38_KillAndReleaseAttempted ==
  shutdown.runs > 0 /\ ~ShutdownInProgress
  => HasEvent(ShutdownSteps[3], "begin") /\ HasEvent(ShutdownSteps[4], "begin")

\* C39: when a shutdown has released the lock while a startup run was
\* waiting in the delay between two lock attempts, that run does not hold the
\* lock afterwards
C39_LockNotHeldAfterShutdown ==
  (/\ shutdown.pc = "done"
   /\ shutdown.startupAtRelease = <<startup.runs, "lockDelay">>)
  => ~startup.lockHeld

\* ---- retry engine, session and catalogue ----
\* a run of retryRequest that ended because its attempts were used up: the
\* failure of the last attempt allowed was a retryable one
Exhausted(c) ==
  /\ calls[c].pc = "done"
  /\ ~calls[c].ok
  /\ calls[c].op = EngineOp
  /\ calls[c].attempt = calls[c].retryAttempts
  /\ isRetryableError(calls[c].lastError)
  /\ ~NonRetryableAuth(calls[c].lastError)

\* C33 (as stated): the failure raised after the attempts are used up has the
\* number of attempts made among its properties
C33_CarriesAttemptCount ==
  \A c \in AppCalls :
    Exhausted(c)
    => /\ "attempts" \in DOMAIN calls[c].error
       /\ calls[c].error.attempts = calls[c].invocations

\* C33 (amended): the failure raised after the attempts are used up is a
\* BackendUnavailableError or a NetworkError built from the last failure (the
\* status of a 5xx response, else 'Request failed'); it has no attempt count,
\* and the attempts made are retryAttempts + 1
C33_ExhaustedFailureShape ==
  \A c \in AppCalls :
    Exhausted(c)
    => /\ calls[c].error.class \in {"NetworkError", "BackendUnavailableError"}
       /\ DOMAIN calls[c].error = {"class", "status", "code", "msg"}
       /\ calls[c].error.code = "none"
       /\ calls[c].error.class = "NetworkError"
          => \/ /\ calls[c].error.msg = "Server error"
                /\ calls[c].error.status = calls[c].lastError.status
                /\ calls[c].lastError.status >= 500
             \/ /\ calls[c].error.msg = "Request failed"
                /\ calls[c].error.status = 0
       /\ calls[c].invocations = calls[c].retryAttempts + 1
\* the default policy used up on 503 answers: 4 attempts, and an error that
\* names the status only
C33_Witness ==
  /\ Exhausted("c1")
  /\ calls["c1"].retryAttempts = DEFAULT_RETRY_ATTEMPTS
  /\ calls["c1"].invocations = DEFAULT_RETRY_ATTEMPTS + 1
  /\ calls["c1"].error = NetworkError("Server error", 503)

\* C34: a Session without access token has no subscription
C34_SignedOutHasNoSubscription ==
  userAuth.authToken = "" => userAuth.subscription = <<>>

\* an HTTP attempt of the call is issued in this step
Issued(c) ==
  /\ calls'[c].pc = "request"
  /\ calls'[c].invocations = calls[c].invocations + 1

\* C35: an attempt issued while the Session is cleared carries no token (not
\* the one that was cleared either) and belongs to a call that needs no
\* authentication
C35_NoAttemptWithClearedToken ==
  [][\A c \in AppCalls :
       (Issued(c) /\ userAuth'.authToken = "")
       => /\ calls'[c].sent = ""
          /\ ~needsAuth(calls'[c])]_vars

\* C37: a step that empties the Session removes the persisted auth record
C37_PersistedAuthRemoved ==
  [][(userAuth # EmptyAuth /\ userAuth' = EmptyAuth) => dbAuth' = <<>>]_vars

\* C32: searchGames never rejects; when the post has failed, with whatever
\* failure, it returns the page mockGames[skip, skip + take) with the number
\* of mock games as count, and that result is marked as a fallback: it has a
\* property that a backend page does not have
C32_MarkedFallback ==
  /\ ~search.rejected
  /\ (search.pc = "returned" /\ search.caught # NoError)
     => /\ search.result # <<>>
        /\ search.result[1].edges
             = [i \in 1..Len(search.result[1].edges) |-> mockGames[search.skip + i]]
        /\ Len(search.result[1].edges)
             = IF search.skip >= Len(mockGames) THEN 0
               ELSE IF search.skip + search.take > Len(mockGames)
                    THEN Len(mockGames) - search.skip
               ELSE search.take
        /\ search.result[1].count = Len(mockGames)
        /\ \E f \in DOMAIN search.result[1] :
             \A page \in BackendPages : f \notin DOMAIN page

\* the search that set what is shown is the one started last, and it was
\* started for the current filters and page
SetByCurrentSearch(shown) ==
  /\ shown.by = Len(catalogue.controllers)
  /\ catalogue.controllers[shown.by].query = catalogue.query

\* C40: a step that puts results or an item count on the page is the outcome
\* of the search started last, for the filters and page of that moment:
\* neither the response nor the failure fallback of a superseded search is
\* applied
C40_SupersededSearchNotApplied ==
  [][/\ (catalogue'.results # catalogue.results
         /\ catalogue'.results.kind # "empty")
        => SetByCurrentSearch(catalogue'.results)
     /\ catalogue'.itemsCount # catalogue.itemsCount
        => SetByCurrentSearch(catalogue'.itemsCount)]_vars

\* the calls that wait for the answer to their POST /auth/refresh
RefreshesInFlight == {c \in Calls : calls[c].pc = "refresh"}

\* C36: at most one refresh request is in flight at any time
C36_SingleRefreshInFlight ==
  Cardinality(RefreshesInFlight) <= 1

====
